---- MODULE Spec2Model ----
(***************************************************************************)
(* The log-ingestion core of helicone:                                     *)
(*   - LogStore.insertLogBatch / LogStore.processPrompt                    *)
(*       (src/valhalla/jawn/src/lib/stores/LogStore.ts): the transactional *)
(*       batch writer and the prompt-version resolver;                     *)
(*   - LogManager.processLogEntries                                        *)
(*       (src/web/pages/api/anthropic/chat/index.ts): the orchestrator.    *)
(*                                                                         *)
(* The database is modelled as READ COMMITTED: every transaction keeps its *)
(* own pending writes (tx[c]); it reads the committed tables overlaid with *)
(* them, and they reach the committed tables in the commit step only.      *)
(* Every awaited database statement is one step, and may raise instead.    *)
(***************************************************************************)
EXTENDS Integers, Sequences, FiniteSets, TLC

\* ---------------------------------------------------------------- bounds
\* insertLogBatch calls of a run; each may overlap the others in time
NumCalls == 2
\* prompt records in one payload
MaxPrompts == 2
\* createdAt values are 1..MaxTime
MaxTime == 2
\* ids of the request / response / properties rows are 1..MaxId
MaxId == 2
\* messages in one batch handed to processLogEntries
NumMsgs == 2
\* prompt records in the payload of a call that runs alone
MaxBatch == 3
\* requests to the chat endpoint, each served by its own handler call
NumReqs == 2

Calls == 1..NumCalls
Times == 1..MaxTime
Ids == 1..MaxId
Msgs == 1..NumMsgs
Reqs == 1..NumReqs

\* ------------------------------------------------------------ the values
\* a PromptRecord whose createdAt is missing (falsy in the comparator)
NoDate == 0
\* versionId = "" : no version resolved;  existingPrompt = null
NoId == <<>>
Org == "org"
Model == "model"

\* heliconeTemplate: {template, inputs}; inputs holds the object's keys in
\* their insertion order (what Object.keys and JSON.stringify see).
NoTemplate == [template |-> "", inputs |-> <<>>]
TplA == [template |-> "A", inputs |-> <<"x", "y">>]
\* the content of TplA, its inputs written in the other order
TplA2 == [template |-> "A", inputs |-> <<"y", "x">>]
TplB == [template |-> "B", inputs |-> <<"z">>]

Range(s) == {s[k] : k \in 1..Len(s)}

\* deepCompare(a, b) of utils/helpers: structural equality, the order of an
\* object's keys left aside.
deepCompare(a, b) ==
    /\ a.template = b.template
    /\ Range(a.inputs) = Range(b.inputs)

\* ------------------------------------------------------------- the state
VARIABLES
    \* committed tables
    request, response, properties,
    prompt_v2, prompts_versions, prompt_input_keys, prompt_input_record,
    \* one entry per insertLogBatch call
    pc, payload, tx, idx, existingPrompt, versionId, locks, result,
    \* history: the prompt records (with a template) of the committed calls;
    \* for each table and id, the committed calls that submitted the id, in
    \* commit order; the tables a failed call had written to
    processed, writes, undone,
    \* processLogEntries
    run, logAcc, rlAcc, mgr, upsertResult, rateLimitResult,
    logCommits, rlCommits, logStore, rlStore,
    \* one entry per request to the chat endpoint: the position of its
    \* handler, req.body, user.data.user, the statuses sent on res, and the
    \* number of anthropic.messages.create calls
    hpc, body, user, sent, created

dbVars == <<request, response, properties,
            prompt_v2, prompts_versions, prompt_input_keys, prompt_input_record>>
histVars == <<processed, writes, undone>>
callVars == <<pc, payload, tx, idx, existingPrompt, versionId, locks, result, histVars>>
storeVars == <<dbVars, callVars>>
mgrVars == <<run, logAcc, rlAcc, mgr, upsertResult, rateLimitResult,
             logCommits, rlCommits, logStore, rlStore>>
proxyVars == <<hpc, body, user, sent, created>>
vars == <<storeVars, mgrVars, proxyVars>>

EmptyPayload == [requests |-> {}, responses |-> {}, properties |-> {}, prompts |-> <<>>]
EmptyTx ==
    [request |-> {}, response |-> {}, properties |-> {},
     prompt_v2 |-> {}, prompts_versions |-> {},
     prompt_input_keys |-> {}, prompt_input_record |-> {}]

\* ------------------------------------------------------------ the inputs
\* the rows a call c submits for one table: any set of ids, the non-key
\* columns ("body") marked with the call that submits them
RowSets(c, ids) == {{[id |-> k, body |-> c] : k \in S} : S \in SUBSET ids}

PromptRecords(c, pids, tpls, n) ==
    [promptId : pids, orgId : {Org}, requestId : {<<c, n>>},
     heliconeTemplate : tpls, model : {Model}, createdAt : Times]

\* the arrays of at most MaxPrompts records; the n-th record of call c
\* belongs to request <<c, n>>
RECURSIVE PromptSeqs(_, _, _, _)
PromptSeqs(c, pids, tpls, n) ==
    IF n = 0 THEN {<<>>}
    ELSE PromptSeqs(c, pids, tpls, n - 1) \cup
         {Append(s, r) : s \in {q \in PromptSeqs(c, pids, tpls, n - 1) : Len(q) = n - 1},
                         r \in PromptRecords(c, pids, tpls, n)}

\* the n-th record of call c, for one prompt: with a createdAt, or without
\* one and then without a template (no statement ever sees the missing date)
BatchRecords(c, n) ==
    PromptRecords(c, {"p"}, {NoTemplate, TplA, TplB}, n) \cup
    {[promptId |-> "p", orgId |-> Org, requestId |-> <<c, n>>,
      heliconeTemplate |-> NoTemplate, model |-> Model, createdAt |-> NoDate]}

\* the arrays of at most n such records
RECURSIVE BatchSeqs(_, _)
BatchSeqs(c, n) ==
    IF n = 0 THEN {<<>>}
    ELSE BatchSeqs(c, n - 1) \cup
         {Append(s, r) : s \in {q \in BatchSeqs(c, n - 1) : Len(q) = n - 1},
                         r \in BatchRecords(c, n)}

Tables == {"request", "response", "properties"}

\* ------------------------------------------------------- LogStore.ts
\* (a variant: ON CONFLICT (id) DO NOTHING)
InsertIgnore(table, rows) ==
    table \cup {n \in rows : \A r \in table : r.id # n.id}

\* ON CONFLICT (id) DO UPDATE SET <every column but id> = EXCLUDED.<column>
Upsert(table, rows) ==
    {r \in table : \A n \in rows : n.id # r.id} \cup rows

\* the comparator of payload.prompts.sort
Cmp(a, b) ==
    IF a.createdAt # NoDate /\ b.createdAt # NoDate
    THEN IF a.createdAt < b.createdAt THEN -1
         ELSE IF a.createdAt > b.createdAt THEN 1 ELSE 0
    ELSE 0

\* Array.prototype.sort is stable: x goes behind the elements not after it
RECURSIVE InsertSorted(_, _)
InsertSorted(s, x) ==
    IF s = <<>> THEN <<x>>
    ELSE IF Cmp(s[Len(s)], x) > 0
         THEN Append(InsertSorted(SubSeq(s, 1, Len(s) - 1), x), s[Len(s)])
         ELSE Append(s, x)

RECURSIVE SortPrompts(_)
SortPrompts(s) ==
    IF s = <<>> THEN <<>>
    ELSE InsertSorted(SortPrompts(SubSeq(s, 1, Len(s) - 1)), s[Len(s)])

\* what transaction c reads: the committed rows and its own pending ones
VisiblePrompts(c) == prompt_v2 \cup tx[c].prompt_v2
VisibleVersions(c) == prompts_versions \cup tx[c].prompts_versions
VisibleKeys(c) == prompt_input_keys \cup tx[c].prompt_input_keys

\* SELECT id FROM prompt_v2 WHERE organization = $1 AND user_defined_id = $2
PromptRows(c, rec) ==
    {p \in VisiblePrompts(c) :
        p.organization = rec.orgId /\ p.user_defined_id = rec.promptId}

\* SELECT ... FROM prompts_versions WHERE organization = $1 AND prompt_v2 = $2
\*   ORDER BY major_version DESC LIMIT 1
LatestVersions(c, org, pid) ==
    LET vs == {v \in VisibleVersions(c) : v.organization = org /\ v.prompt_v2 = pid}
    IN {v \in vs : \A w \in vs : w.major_version <= v.major_version}

\* (a variant: the template is not compared)
ShouldMintUncompared(existing, rec) ==
    \/ existing = {}
    \/ \E v \in existing : v.created_at <= rec.createdAt

\* (a variant: the templates are compared with !== instead of deepCompare)
ShouldMintByIdentity(existing, rec) ==
    \/ existing = {}
    \/ \E v \in existing :
          /\ v.created_at <= rec.createdAt
          /\ v.helicone_template # rec.heliconeTemplate

\* (a variant: createdAt is not compared)
ShouldMintAnyTime(existing, rec) ==
    \/ existing = {}
    \/ \E v \in existing :
          ~deepCompare(v.helicone_template, rec.heliconeTemplate)

\* (a variant: the comparison of the dates the other way round)
ShouldMintOlder(existing, rec) ==
    \/ existing = {}
    \/ \E v \in existing :
          /\ v.created_at >= rec.createdAt
          /\ ~deepCompare(v.helicone_template, rec.heliconeTemplate)

\* the condition of line 174; existing is a set: empty, or the latest version
ShouldMint(existing, rec) ==
    \/ existing = {}
    \/ \E v \in existing :
          /\ v.created_at <= rec.createdAt
          /\ ~deepCompare(v.helicone_template, rec.heliconeTemplate)

\* (a variant: the number of the latest version is taken over as it is)
NextMajorStale(existing) ==
    IF existing = {} THEN 0
    ELSE (CHOOSE v \in existing : TRUE).major_version

\* (a variant: the first version is numbered 1)
NextMajorFromOne(existing) ==
    IF existing = {} THEN 1
    ELSE (CHOOSE v \in existing : TRUE).major_version + 1

\* let majorVersion = existingPromptVersion ? major_version + 1 : 0
NextMajor(existing) ==
    IF existing = {} THEN 0
    ELSE (CHOOSE v \in existing : TRUE).major_version + 1

\* INSERT INTO prompts_versions (...) VALUES ($1, $2, $3, 0, $4, $5, $6)
NewVersion(id, pid, existing, rec) ==
    [id |-> id, prompt_v2 |-> pid, organization |-> rec.orgId,
     major_version |-> NextMajor(existing), minor_version |-> 0,
     helicone_template |-> rec.heliconeTemplate, model |-> rec.model,
     created_at |-> rec.createdAt]

\* INSERT INTO prompt_input_keys ... ON CONFLICT (key, prompt_version) DO NOTHING
NewKeys(c, rec, vid) ==
    {[key |-> k, prompt_version |-> vid, created_at |-> rec.createdAt] :
        k \in {x \in Range(rec.heliconeTemplate.inputs) :
                 \A old \in VisibleKeys(c) :
                    ~(old.key = x /\ old.prompt_version = vid)}}

\* (a variant: ON CONFLICT (prompt_version) DO NOTHING, as for the keys)
InsertInputRecordOnce(table, rec, vid) ==
    IF \E old \in table : old.prompt_version = vid THEN table
    ELSE table \cup {[inputs |-> rec.heliconeTemplate.inputs,
                      source_request |-> rec.requestId,
                      prompt_version |-> vid, created_at |-> rec.createdAt]}

\* INSERT INTO prompt_input_record (inputs, source_request, prompt_version, created_at)
InsertInputRecord(table, rec, vid) ==
    table \cup {[inputs |-> rec.heliconeTemplate.inputs,
                 source_request |-> rec.requestId,
                 prompt_version |-> vid, created_at |-> rec.createdAt]}

Record(c) == payload[c].prompts[idx[c]]

\* the for loop of line 116 moves on: the next record's lock, or the commit
NextRecord(c) ==
    /\ idx' = [idx EXCEPT ![c] = @ + 1]
    /\ pc' = [pc EXCEPT ![c] = IF idx[c] < Len(payload[c].prompts)
                                THEN "lock" ELSE "commit"]

\* (a variant: the statements are not run in the transaction)
RolledBackKeepsRows(pending, committed) == committed \cup pending

\* the committed table after the rollback of a transaction
RolledBack(pending, committed) == committed

\* the committed table after the commit of a transaction that inserted
Committed(pending, committed) == committed \cup pending

\* insertLogBatch(payload) is called; db.tx opens the transaction.
\* payload[c] holds the fields of the payload the call has read so far: each
\* field is an input, drawn in the step that reads it first.
Begin(c) ==
    /\ pc[c] = "idle"
    /\ pc' = [pc EXCEPT ![c] = "requests"]
    /\ UNCHANGED <<dbVars, payload, tx, idx, existingPrompt, versionId, locks, result, histVars, mgrVars, proxyVars>>

\* lines 81-86
UpsertRequests(c, inputs) ==
    /\ pc[c] = "requests"
    /\ \E rows \in inputs :
          /\ payload' = [payload EXCEPT ![c].requests = rows]
          /\ tx' = [tx EXCEPT ![c].request =
                       IF rows # {} THEN Upsert(@, rows) ELSE @]
    /\ pc' = [pc EXCEPT ![c] = "responses"]
    /\ UNCHANGED <<dbVars, idx, existingPrompt, versionId, locks, result, histVars, mgrVars, proxyVars>>

\* lines 89-94
UpsertResponses(c, inputs) ==
    /\ pc[c] = "responses"
    /\ \E rows \in inputs :
          /\ payload' = [payload EXCEPT ![c].responses = rows]
          /\ tx' = [tx EXCEPT ![c].response =
                       IF rows # {} THEN Upsert(@, rows) ELSE @]
    /\ pc' = [pc EXCEPT ![c] = "properties"]
    /\ UNCHANGED <<dbVars, idx, existingPrompt, versionId, locks, result, histVars, mgrVars, proxyVars>>

\* lines 97-114: the properties, then payload.prompts.sort in place
UpsertProperties(c, inputs, promptInputs) ==
    /\ pc[c] = "properties"
    /\ \E rows \in inputs, prompts \in promptInputs :
          /\ payload' = [payload EXCEPT ![c].properties = rows,
                                        ![c].prompts = SortPrompts(prompts)]
          /\ tx' = [tx EXCEPT ![c].properties =
                       IF rows # {} THEN Upsert(@, rows) ELSE @]
          /\ pc' = [pc EXCEPT ![c] = IF prompts = <<>> THEN "commit" ELSE "lock"]
    /\ idx' = [idx EXCEPT ![c] = 1]
    /\ UNCHANGED <<dbVars, existingPrompt, versionId, locks, result, histVars, mgrVars, proxyVars>>

\* (a variant: a lock per request instead of per prompt)
LockKeyByRequest(rec) == rec.requestId

\* the key of the advisory lock taken for a record, lines 118-120
LockKey(rec) == rec.promptId

\* (a variant: a lock that never makes anyone wait)
LockGrantedShared(c, key) == TRUE

\* pg_advisory_xact_lock is exclusive: it returns once no other transaction
\* holds the key (the holder itself may take it again)
LockGranted(c, key) == \A d \in Calls \ {c} : key \notin locks[d]

\* SELECT pg_advisory_xact_lock($1): waits while another transaction holds it
AcquireLock(c) ==
    /\ pc[c] = "lock"
    /\ LockGranted(c, LockKey(Record(c)))
    /\ locks' = [locks EXCEPT ![c] = @ \cup {LockKey(Record(c))}]
    /\ pc' = [pc EXCEPT ![c] = "prompt"]
    /\ UNCHANGED <<dbVars, payload, tx, idx, existingPrompt, versionId, result, histVars, mgrVars, proxyVars>>

\* (a variant: processPrompt without the check of line 139)
HasTemplateAlways(rec) == TRUE

\* line 139: if (!heliconeTemplate) return ok(...)
HasTemplate(rec) == rec.heliconeTemplate # NoTemplate

\* processPrompt, lines 136-141: no template, nothing to do
SkipPrompt(c) ==
    /\ pc[c] = "prompt"
    /\ ~HasTemplate(Record(c))
    /\ NextRecord(c)
    /\ UNCHANGED <<dbVars, payload, tx, existingPrompt, versionId, locks, result, histVars, mgrVars, proxyVars>>

\* processPrompt, lines 144-157: the prompt row, created on first sight
\* (oneOrNone raises on more than one row)
EnsurePrompt(c) ==
    /\ pc[c] = "prompt"
    /\ HasTemplate(Record(c))
    /\ Cardinality(PromptRows(c, Record(c))) <= 1
    /\ IF PromptRows(c, Record(c)) = {}
       THEN /\ tx' = [tx EXCEPT ![c].prompt_v2 = @ \cup
                         {[id |-> <<"prompt", c, idx[c]>>,
                           user_defined_id |-> Record(c).promptId,
                           organization |-> Record(c).orgId,
                           created_at |-> Record(c).createdAt]}]
            /\ existingPrompt' = [existingPrompt EXCEPT ![c] = <<"prompt", c, idx[c]>>]
       ELSE /\ tx' = tx
            /\ existingPrompt' = [existingPrompt EXCEPT ![c] =
                                    (CHOOSE p \in PromptRows(c, Record(c)) : TRUE).id]
    /\ pc' = [pc EXCEPT ![c] = "version"]
    /\ UNCHANGED <<dbVars, payload, idx, versionId, locks, result, histVars, mgrVars, proxyVars>>

\* processPrompt, lines 160-197: the latest version, and a new one if needed
ResolveVersion(c) ==
    /\ pc[c] = "version"
    /\ \E existing \in
           IF LatestVersions(c, Record(c).orgId, existingPrompt[c]) = {} THEN {{}}
           ELSE {{v} : v \in LatestVersions(c, Record(c).orgId, existingPrompt[c])} :
          IF ShouldMint(existing, Record(c))
          THEN /\ tx' = [tx EXCEPT ![c].prompts_versions = @ \cup
                            {NewVersion(<<"version", c, idx[c]>>, existingPrompt[c],
                                        existing, Record(c))}]
               /\ versionId' = [versionId EXCEPT ![c] = <<"version", c, idx[c]>>]
          ELSE /\ tx' = tx
               /\ versionId' = [versionId EXCEPT ![c] =
                                   (CHOOSE v \in existing : TRUE).id]
    /\ pc' = [pc EXCEPT ![c] = "inputs"]
    /\ UNCHANGED <<dbVars, payload, idx, existingPrompt, locks, result, histVars, mgrVars, proxyVars>>

\* processPrompt, lines 200-226: the input keys and the input record
RecordInputs(c) ==
    /\ pc[c] = "inputs"
    /\ tx' = IF versionId[c] # NoId
             THEN [tx EXCEPT ![c].prompt_input_keys =
                                 @ \cup NewKeys(c, Record(c), versionId[c]),
                             ![c].prompt_input_record =
                                 InsertInputRecord(@, Record(c), versionId[c])]
             ELSE tx
    /\ NextRecord(c)
    /\ existingPrompt' = [existingPrompt EXCEPT ![c] = NoId]
    /\ versionId' = [versionId EXCEPT ![c] = NoId]
    /\ UNCHANGED <<dbVars, payload, locks, result, histVars, mgrVars, proxyVars>>

\* the call is over: its locals are gone, its transaction-scoped locks free
Finish(c, res) ==
    /\ pc' = [pc EXCEPT ![c] = "done"]
    /\ result' = [result EXCEPT ![c] = res]
    /\ locks' = [locks EXCEPT ![c] = {}]
    /\ tx' = [tx EXCEPT ![c] = EmptyTx]
    /\ payload' = [payload EXCEPT ![c] = EmptyPayload]
    /\ idx' = [idx EXCEPT ![c] = 0]
    /\ existingPrompt' = [existingPrompt EXCEPT ![c] = NoId]
    /\ versionId' = [versionId EXCEPT ![c] = NoId]

\* lines 123-125: the transaction commits, return ok(...)
Commit(c) ==
    /\ pc[c] = "commit"
    /\ request' = Upsert(request, tx[c].request)
    /\ response' = Upsert(response, tx[c].response)
    /\ properties' = Upsert(properties, tx[c].properties)
    /\ prompt_v2' = Committed(tx[c].prompt_v2, prompt_v2)
    /\ prompts_versions' = Committed(tx[c].prompts_versions, prompts_versions)
    /\ prompt_input_keys' = Committed(tx[c].prompt_input_keys, prompt_input_keys)
    /\ prompt_input_record' = Committed(tx[c].prompt_input_record, prompt_input_record)
    /\ processed' = processed \cup
          {q \in Range(payload[c].prompts) : q.heliconeTemplate # NoTemplate}
    /\ writes' =
          [t \in Tables |->
             [k \in Ids |->
                IF \E r \in (CASE t = "request" -> payload[c].requests
                               [] t = "response" -> payload[c].responses
                               [] OTHER -> payload[c].properties) : r.id = k
                THEN Append(writes[t][k], c) ELSE writes[t][k]]]
    /\ UNCHANGED undone
    /\ Finish(c, "ok")
    /\ UNCHANGED <<mgrVars, proxyVars>>

\* lines 126-129: a statement (or the commit) raises, db.tx rolls back,
\* the catch returns err(...); processPrompt has no statement to run for a
\* record without a template
Raise(c) ==
    /\ pc[c] \in {"requests", "responses", "properties", "lock",
                  "prompt", "version", "inputs", "commit"}
    /\ pc[c] = "prompt" => HasTemplate(Record(c))
    /\ request' = RolledBack(tx[c].request, request)
    /\ response' = RolledBack(tx[c].response, response)
    /\ properties' = RolledBack(tx[c].properties, properties)
    /\ prompt_v2' = RolledBack(tx[c].prompt_v2, prompt_v2)
    /\ prompts_versions' = RolledBack(tx[c].prompts_versions, prompts_versions)
    /\ prompt_input_keys' = RolledBack(tx[c].prompt_input_keys, prompt_input_keys)
    /\ prompt_input_record' = RolledBack(tx[c].prompt_input_record, prompt_input_record)
    /\ undone' = [undone EXCEPT ![c] = {t \in DOMAIN tx[c] : tx[c][t] # {}}]
    /\ Finish(c, "err")
    /\ UNCHANGED <<processed, writes, mgrVars, proxyVars>>

\* ------------------------------------------- LogManager.processLogEntries
\* (a variant: the limiter put in front of the authentication)
StagesRateLimitFirst ==
    <<"RateLimit", "Authentication", "BlobRead", "RequestBodyParse",
      "ResponseBodyParse", "PromptExtract", "LogAccumulate", "AnalyticsEmit">>

\* the chain built by setNext, lines 116-123
Stages == <<"Authentication", "RateLimit", "BlobRead", "RequestBodyParse",
            "ResponseBodyParse", "PromptExtract", "LogAccumulate", "AnalyticsEmit">>

\* what a stage does with the context: it forwards it to the next stage, or
\* it marks it terminated (also on an error of its own, which never leaves
\* the pipeline)
StageOutcomes == {"forward", "terminate"}

\* a commit (handleResults) returns a result
CommitResults == {"ok", "err"}

\* run[m].invoked stages have been invoked for message m
Settled(m) == run[m].status \in {"finished", "terminated"}

\* (a variant: the commits wait for every run to succeed)
AllRunsFinished == \A m \in Msgs : run[m].status = "finished"

\* (a variant: Promise.race instead of Promise.all)
SomeRunSettled == \E m \in Msgs : Settled(m)

\* await Promise.all(...) of line 125 is over: every run has settled
AllRunsSettled == \A m \in Msgs : Settled(m)

\* line 128: the run of message m invokes the next stage of the chain, which
\* collects into its accumulator and forwards, or terminates the context
HandleStage(m) ==
    /\ mgr = "runs"
    /\ run[m].status = "running"
    /\ run[m].invoked < Len(Stages)
    /\ \E out \in StageOutcomes :
          LET k == run[m].invoked + 1
          IN /\ run' = [run EXCEPT ![m] =
                          [invoked |-> k,
                           status |-> IF out = "terminate" THEN "terminated"
                                      ELSE IF k = Len(Stages) THEN "finished"
                                      ELSE "running",
                           trace |-> Append(run[m].trace, Stages[k]),
                           outcomes |-> Append(run[m].outcomes, out)]]
             /\ rlAcc' = IF Stages[k] = "RateLimit" /\ out = "forward"
                         THEN rlAcc \cup {m} ELSE rlAcc
             /\ logAcc' = IF Stages[k] = "LogAccumulate" /\ out = "forward"
                          THEN logAcc \cup {m} ELSE logAcc
    /\ UNCHANGED <<storeVars, proxyVars, mgr, upsertResult, rateLimitResult,
                   logCommits, rlCommits, logStore, rlStore>>

\* lines 132-134: every run is over, loggingHandler.handleResults() is called
InvokeLogCommit ==
    /\ mgr = "runs"
    /\ AllRunsSettled
    /\ mgr' = "logCommit"
    /\ logCommits' = logCommits + 1
    /\ UNCHANGED <<storeVars, proxyVars, run, logAcc, rlAcc, upsertResult, rateLimitResult,
                   rlCommits, logStore, rlStore>>

\* (a variant: return after a failed log commit)
CommitsRateLimitsOnSuccess(res) == res = "ok"

\* whether the rate-limit commit of line 144 follows a log commit that
\* returned res
CommitsRateLimits(res) == TRUE

\* lines 134-144: the log commit returns; its error is logged; then
\* rateLimitHandler.handleResults() is called
LogCommitReturns ==
    /\ mgr = "logCommit"
    /\ \E res \in CommitResults :
          /\ upsertResult' = res
          /\ logStore' = IF res = "ok" THEN logStore \cup logAcc ELSE logStore
          /\ IF CommitsRateLimits(res)
             THEN mgr' = "rlCommit" /\ rlCommits' = rlCommits + 1
             ELSE mgr' = "done" /\ rlCommits' = rlCommits
    /\ UNCHANGED <<storeVars, proxyVars, run, logAcc, rlAcc, rateLimitResult, logCommits, rlStore>>

\* lines 144-151: the rate-limit commit returns; its error is logged;
\* processLogEntries returns
RateLimitCommitReturns ==
    /\ mgr = "rlCommit"
    /\ \E res \in CommitResults :
          /\ rateLimitResult' = res
          /\ rlStore' = IF res = "ok" THEN rlStore \cup rlAcc ELSE rlStore
    /\ mgr' = "done"
    /\ UNCHANGED <<storeVars, proxyVars, run, logAcc, rlAcc, upsertResult,
                   logCommits, rlCommits, logStore>>

\* ------------------------------------------- the chat endpoint (handler)
\* user.data.user is null: nobody is signed in
NoUser == "null"
\* the e-mail of the demo account (lib/constants)
DEMO_EMAIL == "demo@helicone"
\* what getUser returns as user.data.user: null, or a user, given by the e-mail
Users == {NoUser, DEMO_EMAIL, "user@helicone"}

\* req.body: temperature and model may each be absent; temperature is a
\* number, model a string
Bodies ==
    {t @@ m : t \in {<<>>, [temperature |-> 0], [temperature |-> 1]},
              m \in {<<>>, [model |-> ""], [model |-> "claude-3"]}}

\* !temperature: undefined and 0 are falsy
NotTemperature(b) == "temperature" \notin DOMAIN b \/ b.temperature = 0

\* !model: undefined and the empty string are falsy
NotModel(b) == "model" \notin DOMAIN b \/ b.model = ""

\* res.status(code).json(...); return
Respond(r, code) ==
    /\ sent' = [sent EXCEPT ![r] = Append(@, code)]
    /\ hpc' = [hpc EXCEPT ![r] = "done"]

\* lines 12-20: getUser has returned, the body is destructured
Receive(r) ==
    /\ hpc[r] = "start"
    /\ \E u \in Users, b \in Bodies :
          /\ user' = [user EXCEPT ![r] = u]
          /\ body' = [body EXCEPT ![r] = b]
    /\ hpc' = [hpc EXCEPT ![r] = "validate"]
    /\ UNCHANGED <<storeVars, mgrVars, sent, created>>

\* lines 22-28
Validate(r) ==
    /\ hpc[r] = "validate"
    /\ IF NotTemperature(body[r]) \/ NotModel(body[r])
       THEN Respond(r, 400)
       ELSE /\ hpc' = [hpc EXCEPT ![r] = "authorize"]
            /\ sent' = sent
    /\ UNCHANGED <<storeVars, mgrVars, body, user, created>>

\* lines 41-51: the two checks of the user, then anthropic.messages.create
\* is called
Authorize(r) ==
    /\ hpc[r] = "authorize"
    /\ IF user[r] = NoUser
       THEN Respond(r, 401) /\ created' = created
       ELSE IF user[r] = DEMO_EMAIL
       THEN Respond(r, 401) /\ created' = created
       ELSE /\ hpc' = [hpc EXCEPT ![r] = "provider"]
            /\ created' = [created EXCEPT ![r] = @ + 1]
            /\ sent' = sent
    /\ UNCHANGED <<storeVars, mgrVars, body, user>>

\* lines 50-65: the provider answers, or the call raises
ProviderReturns(r) ==
    /\ hpc[r] = "provider"
    /\ \E failed \in BOOLEAN : Respond(r, IF failed THEN 500 ELSE 200)
    /\ UNCHANGED <<storeVars, mgrVars, body, user, created>>

\* ------------------------------------------------------ specifications
StoreInit ==
    /\ request = {} /\ response = {} /\ properties = {}
    /\ prompt_v2 = {} /\ prompts_versions = {}
    /\ prompt_input_keys = {} /\ prompt_input_record = {}
    /\ pc = [c \in Calls |-> "idle"]
    /\ payload = [c \in Calls |-> EmptyPayload]
    /\ tx = [c \in Calls |-> EmptyTx]
    /\ idx = [c \in Calls |-> 0]
    /\ existingPrompt = [c \in Calls |-> NoId]
    /\ versionId = [c \in Calls |-> NoId]
    /\ locks = [c \in Calls |-> {}]
    /\ result = [c \in Calls |-> "none"]
    /\ processed = {}
    /\ writes = [t \in Tables |-> [k \in Ids |-> <<>>]]
    /\ undone = [c \in Calls |-> {}]

\* processLogEntries has built the chain; every run is about to call
\* authHandler.handle
MgrInit ==
    /\ run = [m \in Msgs |-> [invoked |-> 0, status |-> "running",
                              trace |-> <<>>, outcomes |-> <<>>]]
    /\ logAcc = {} /\ rlAcc = {}
    /\ mgr = "runs"
    /\ upsertResult = "none" /\ rateLimitResult = "none"
    /\ logCommits = 0 /\ rlCommits = 0
    /\ logStore = {} /\ rlStore = {}

\* no request has reached its handler yet
ProxyInit ==
    /\ hpc = [r \in Reqs |-> "start"]
    /\ body = [r \in Reqs |-> <<>>]
    /\ user = [r \in Reqs |-> NoUser]
    /\ sent = [r \in Reqs |-> <<>>]
    /\ created = [r \in Reqs |-> 0]

Init == StoreInit /\ MgrInit /\ ProxyInit

StoreStep(c) ==
    \/ Begin(c)
    \/ AcquireLock(c)
    \/ SkipPrompt(c)
    \/ EnsurePrompt(c)
    \/ ResolveVersion(c)
    \/ RecordInputs(c)
    \/ Commit(c)
    \/ Raise(c)

\* insertLogBatch calls on one prompt: every template, two createdAt values,
\* one request row
Next ==
    \E c \in Calls :
        \/ UpsertRequests(c, RowSets(c, {1}))
        \/ UpsertResponses(c, {{}})
        \/ UpsertProperties(c, {{}},
               PromptSeqs(c, {"p"}, {NoTemplate, TplA, TplA2, TplB}, MaxPrompts))
        \/ StoreStep(c)

Spec == Init /\ [][Next]_vars

\* insertLogBatch calls on two prompts
NextLocks ==
    \E c \in Calls :
        \/ UpsertRequests(c, {{}})
        \/ UpsertResponses(c, {{}})
        \/ UpsertProperties(c, {{}},
               PromptSeqs(c, {"p", "q"}, {NoTemplate, TplA}, MaxPrompts))
        \/ StoreStep(c)

SpecLocks == Init /\ [][NextLocks]_vars

\* one insertLogBatch call that runs alone, with up to MaxBatch records, some
\* of them without createdAt
NextBatch ==
    \E c \in {k \in Calls : \A d \in Calls : k <= d} :
        \/ UpsertRequests(c, {{}})
        \/ UpsertResponses(c, {{}})
        \/ UpsertProperties(c, {{}}, BatchSeqs(c, MaxBatch))
        \/ StoreStep(c)

SpecBatch == Init /\ [][NextBatch]_vars

\* insertLogBatch calls without prompts: the three bulk upserts
NextUpsert ==
    \E c \in Calls :
        \/ UpsertRequests(c, RowSets(c, Ids))
        \/ UpsertResponses(c, RowSets(c, Ids))
        \/ UpsertProperties(c, RowSets(c, Ids), {<<>>})
        \/ Begin(c)
        \/ Commit(c)
        \/ Raise(c)

SpecUpsert == Init /\ [][NextUpsert]_vars

\* one processLogEntries call
NextMgr ==
    \/ \E m \in Msgs : HandleStage(m)
    \/ InvokeLogCommit
    \/ LogCommitReturns
    \/ RateLimitCommitReturns

SpecMgr == Init /\ [][NextMgr]_vars

\* requests to the chat endpoint
NextProxy ==
    \E r \in Reqs :
        \/ Receive(r)
        \/ Validate(r)
        \/ Authorize(r)
        \/ ProviderReturns(r)

SpecProxy == Init /\ [][NextProxy]_vars

\* ---------------------------------------------------------- properties
\* call c waits for an advisory lock that call d holds
WaitsFor(c, d) ==
    /\ c # d
    /\ pc[c] = "lock"
    /\ Record(c).promptId \in locks[d]

\* C1: deadlock freedom. No reachable state has two insertLogBatch
\* transactions that each hold a per-prompt advisory lock the other waits for.
DeadlockFreedom ==
    \A c, d \in Calls : ~(WaitsFor(c, d) /\ WaitsFor(d, c))

\* C2: batch atomicity. A call that raises at any step returns an error
\* result and leaves the committed tables as they were; the committed tables
\* change only in the step in which a call commits.
BatchAtomicity ==
    [][/\ \A c \in Calls :
             (pc[c] # "done" /\ pc'[c] = "done" /\ result'[c] # "ok")
                => (result'[c] = "err" /\ dbVars' = dbVars)
       /\ dbVars' # dbVars
             => \E c \in Calls : pc[c] = "commit" /\ result'[c] = "ok"]_vars

\* a call failed after it had upserted a request, minted a version and
\* recorded inputs, and nothing of it is in the committed tables
RollbackReached ==
    \E c \in Calls :
        /\ result[c] = "err"
        /\ {"request", "prompt_v2", "prompts_versions",
            "prompt_input_keys", "prompt_input_record"} \subseteq undone[c]
        /\ request = {} /\ prompt_v2 = {} /\ prompts_versions = {}
        /\ prompt_input_keys = {} /\ prompt_input_record = {}

\* C3 as stated: no two versions of one prompt have structurally equal
\* templates.
OneVersionPerTemplate ==
    \A v, w \in prompts_versions :
        (v.prompt_v2 = w.prompt_v2
            /\ deepCompare(v.helicone_template, w.helicone_template))
        => v = w

\* C3 as amended: no two versions of one prompt with consecutive
\* majorVersions have structurally equal templates.
AdjacentVersionsDiffer ==
    \A v, w \in prompts_versions :
        (v.prompt_v2 = w.prompt_v2 /\ w.major_version = v.major_version + 1)
        => ~deepCompare(v.helicone_template, w.helicone_template)

\* templates A, B, A: versions 0 and 2 of one prompt have the same content
TemplateCameBack ==
    \E v, w \in prompts_versions :
        /\ v.prompt_v2 = w.prompt_v2
        /\ v.major_version = 0 /\ w.major_version = 2
        /\ deepCompare(v.helicone_template, w.helicone_template)

\* call c takes the step of processPrompt that resolves the version
Resolves(c) == pc[c] = "version" /\ pc'[c] = "inputs"

\* the versions of the prompt call c is at, as call c sees them
VersionsOf(c) ==
    {v \in VisibleVersions(c) :
        v.organization = Record(c).orgId /\ v.prompt_v2 = existingPrompt[c]}

Highest(vs) == {v \in vs : \A w \in vs : w.major_version <= v.major_version}

\* C4: version dedup. Resolving a record whose template is structurally equal
\* to the latest version's mints nothing, whatever its createdAt: the number of
\* versions and the highest majorVersion stay, the latest version's id is the
\* resolved id.
VersionDedup ==
    [][\A c \in Calls : Resolves(c) =>
          \A v \in Highest(VersionsOf(c)) :
              deepCompare(v.helicone_template, Record(c).heliconeTemplate)
              => /\ Cardinality(VersionsOf(c)') = Cardinality(VersionsOf(c))
                 /\ \A w \in VersionsOf(c)' : w.major_version <= v.major_version
                 /\ versionId'[c] = v.id]_vars

\* a record resolved to an older version of the same content, written with
\* another key order and another createdAt
DedupReached ==
    \E c \in Calls : \E v \in VisibleVersions(c) :
        /\ pc[c] = "inputs"
        /\ versionId[c] = v.id
        /\ v.id # <<"version", c, idx[c]>>
        /\ deepCompare(v.helicone_template, Record(c).heliconeTemplate)
        /\ v.helicone_template # Record(c).heliconeTemplate
        /\ v.created_at # Record(c).createdAt

\* C5: mint rule. processPrompt mints exactly when the prompt has no version,
\* or the latest version's createdAt <= the record's and the templates differ;
\* the minted version has majorVersion = highest + 1 (0 when there was none),
\* minorVersion 0 and the record's template, model and createdAt; otherwise no
\* version is added.
MintRule ==
    [][\A c \in Calls : Resolves(c) =>
          LET rec == Record(c)
              old == VersionsOf(c)
              due == \/ old = {}
                     \/ \E v \in Highest(old) :
                           /\ v.created_at <= rec.createdAt
                           /\ ~deepCompare(v.helicone_template, rec.heliconeTemplate)
          IN IF due
             THEN /\ old \subseteq VersionsOf(c)'
                  /\ \E nv \in VersionsOf(c)' \ old :
                        /\ VersionsOf(c)' \ old = {nv}
                        /\ versionId'[c] = nv.id
                        /\ nv.minor_version = 0
                        /\ nv.helicone_template = rec.heliconeTemplate
                        /\ nv.model = rec.model
                        /\ nv.created_at = rec.createdAt
                        /\ IF old = {} THEN nv.major_version = 0
                           ELSE \A v \in Highest(old) :
                                   nv.major_version = v.major_version + 1
             ELSE VersionsOf(c)' = old]_vars

\* a version was minted on top of an older one
MintReached ==
    \E c \in Calls : \E v, w \in VisibleVersions(c) :
        /\ pc[c] = "inputs"
        /\ versionId[c] = <<"version", c, idx[c]>>
        /\ v.id = versionId[c]
        /\ w.prompt_v2 = v.prompt_v2
        /\ v.major_version = w.major_version + 1
        /\ w.created_at <= v.created_at

\* C6: out-of-order suppression. Resolving a record whose createdAt is
\* strictly earlier than the latest version's mints nothing, even if the
\* template differs, and resolves to the latest version's id.
OutOfOrderSuppression ==
    [][\A c \in Calls : Resolves(c) =>
          \A v \in Highest(VersionsOf(c)) :
              Record(c).createdAt < v.created_at
              => /\ VersionsOf(c)' = VersionsOf(c)
                 /\ versionId'[c] = v.id]_vars

\* a record with another template and an earlier createdAt resolved to the
\* latest version
SuppressionReached ==
    \E c \in Calls : \E v \in VisibleVersions(c) :
        /\ pc[c] = "inputs"
        /\ versionId[c] = v.id
        /\ Record(c).createdAt < v.created_at
        /\ ~deepCompare(v.helicone_template, Record(c).heliconeTemplate)

\* the input records linked to the versions of the prompt (org, pid)
RecordsOf(org, pid) ==
    {r \in prompt_input_record :
        \E v \in prompts_versions, p \in prompt_v2 :
            /\ r.prompt_version = v.id /\ v.prompt_v2 = p.id
            /\ p.organization = org /\ p.user_defined_id = pid}

\* C7: audit completeness. For the N records (with a template) of one prompt
\* in committed batches there are exactly N PromptInputRecord rows, one per
\* record, each linked to a version of that prompt.
AuditCompleteness ==
    /\ \A r \in processed :
          /\ Cardinality({x \in prompt_input_record :
                            x.source_request = r.requestId}) = 1
          /\ \E x \in RecordsOf(r.orgId, r.promptId) :
                x.source_request = r.requestId
    /\ \A r \in processed :
          Cardinality(RecordsOf(r.orgId, r.promptId)) =
          Cardinality({q \in processed :
                         q.orgId = r.orgId /\ q.promptId = r.promptId})
    /\ Cardinality(prompt_input_record) = Cardinality(processed)

\* three records of one prompt, one version
AuditReached ==
    /\ Cardinality(prompts_versions) = 1
    /\ \E r \in processed : Cardinality(RecordsOf(r.orgId, r.promptId)) = 3

CommittedTable(t) ==
    CASE t = "request" -> request
      [] t = "response" -> response
      [] OTHER -> properties

Submitted(c, t) ==
    CASE t = "request" -> payload[c].requests
      [] t = "response" -> payload[c].responses
      [] OTHER -> payload[c].properties

\* C8: idempotent upsert. Each of the three tables holds at most one row per
\* id, with the columns of the last committed batch that contained the id; a
\* committing batch whose set for a table is empty leaves the table unchanged.
IdempotentUpsert ==
    [][/\ \A t \in Tables, k \in Ids :
             {r \in CommittedTable(t)' : r.id = k} =
                IF writes'[t][k] = <<>> THEN {}
                ELSE {[id |-> k, body |-> writes'[t][k][Len(writes'[t][k])]]}
       /\ \A c \in Calls, t \in Tables :
             (pc[c] = "commit" /\ result'[c] = "ok" /\ Submitted(c, t) = {})
                => CommittedTable(t)' = CommittedTable(t)]_vars

\* a request id committed by two batches holds the second one's columns,
\* while the second batch had no response
OverwriteReached ==
    \E k \in Ids :
        /\ Len(writes["request"][k]) = 2
        /\ [id |-> k, body |-> writes["request"][k][2]] \in request
        /\ \E j \in Ids : Len(writes["response"][j]) = 1
                          /\ writes["response"][j][1] = writes["request"][k][1]

\* C9: independent commits. Once the log commit has returned a failure, the
\* rate-limit commit has been invoked, exactly once; no commit is invoked
\* twice; a successful rate-limit commit persists what was accumulated; the
\* call ends.
IndependentCommits ==
    /\ logCommits <= 1 /\ rlCommits <= 1
    /\ upsertResult = "err" =>
          /\ rlCommits = 1
          /\ mgr \in {"rlCommit", "done"}
          /\ mgr = "rlCommit" => ENABLED RateLimitCommitReturns
          /\ (mgr = "done" /\ rateLimitResult = "ok") => rlStore = rlAcc
          /\ logStore = {}

\* the log commit failed, the rate-limit commit succeeded and persisted
LogFailedRateLimitPersisted ==
    /\ mgr = "done"
    /\ upsertResult = "err" /\ rateLimitResult = "ok"
    /\ logCommits = 1 /\ rlCommits = 1
    /\ rlStore = Msgs

CommitOrdering ==
    [][/\ logCommits' > logCommits
             => \A m \in Msgs : run[m].status \in {"finished", "terminated"}
       /\ rlCommits' > rlCommits
             => (logCommits = 1 /\ mgr = "logCommit" /\ upsertResult' # "none")
       /\ run' # run => (mgr = "runs" /\ logCommits = 0 /\ rlCommits = 0)
       /\ (logCommits' >= 1 \/ rlCommits' >= 1)
             => \A m \in Msgs : run'[m].status # "running"]_vars

\* the rate-limit commit is in flight: every run is over, the log commit has
\* returned
RateLimitCommitInFlight ==
    /\ mgr = "rlCommit"
    /\ upsertResult # "none"
    /\ logCommits = 1 /\ rlCommits = 1
    /\ \E m \in Msgs : run[m].status = "terminated" /\ run[m].invoked < Len(Stages)

\* C12: per-prompt mutual exclusion. At most one transaction holds the lock of
\* a prompt; a call holds the lock of its record's prompt in every step of
\* processPrompt, so before it reads or writes a row of that prompt; and a
\* lock once taken is held until the call's transaction commits or aborts.
PromptMutualExclusion ==
    /\ [](/\ \A c \in Calls : \A d \in Calls \ {c} : locks[c] \cap locks[d] = {}
          /\ \A c \in Calls :
                /\ pc[c] \in {"prompt", "version", "inputs"}
                      => LockKey(Record(c)) \in locks[c]
                /\ \A p \in tx[c].prompt_v2 : p.user_defined_id \in locks[c]
                /\ \A v \in tx[c].prompts_versions :
                      \E p \in VisiblePrompts(c) :
                         p.id = v.prompt_v2 /\ p.user_defined_id \in locks[c])
    /\ [][\A c \in Calls :
             \/ locks[c] \subseteq locks'[c]
             \/ pc[c] # "done" /\ pc'[c] = "done"]_vars

\* a call works on a prompt under its lock while the other call waits for
\* that very lock
LockContended ==
    \E c \in Calls : \E d \in Calls \ {c} :
       /\ pc[c] = "version" /\ tx[c].prompt_v2 # {}
       /\ pc[d] = "lock" /\ LockKey(Record(d)) \in locks[c]
       /\ ~ ENABLED AcquireLock(d)

\* the committed rows of the prompt (org, pid), and its versions
PromptsOf(org, pid) ==
    {p \in prompt_v2 : p.organization = org /\ p.user_defined_id = pid}

PromptVersionsOf(org, pid) ==
    {v \in prompts_versions : \E p \in PromptsOf(org, pid) : v.prompt_v2 = p.id}

\* the records of committed batches for the prompt (org, pid)
ProcessedOf(org, pid) ==
    {q \in processed : q.orgId = org /\ q.promptId = pid}

\* C13: racing creators are serialized. No two Prompt rows share
\* (organization, user_defined_id); and when the calls that carried a prompt
\* nobody had seen all carried structurally equal templates, there is exactly
\* one Prompt row, exactly one PromptVersion, of majorVersion 0, and one
\* PromptInputRecord per record.
RacingCreatorsSerialized ==
    /\ \A p \in prompt_v2, q \in prompt_v2 :
          (p.organization = q.organization /\ p.user_defined_id = q.user_defined_id)
             => p = q
    /\ \A r \in processed :
          (\A q \in ProcessedOf(r.orgId, r.promptId) :
              deepCompare(q.heliconeTemplate, r.heliconeTemplate))
          => /\ Cardinality(PromptsOf(r.orgId, r.promptId)) = 1
             /\ Cardinality(PromptVersionsOf(r.orgId, r.promptId)) = 1
             /\ \A v \in PromptVersionsOf(r.orgId, r.promptId) : v.major_version = 0
             /\ Cardinality(RecordsOf(r.orgId, r.promptId)) =
                Cardinality(ProcessedOf(r.orgId, r.promptId))

\* both calls carried one record of the same prompt with equal templates and
\* both committed: one prompt, one version, two input records
BothCreatorsCommitted ==
    /\ \A c \in Calls : pc[c] = "done" /\ result[c] = "ok"
    /\ \E r \in processed :
          /\ ProcessedOf(r.orgId, r.promptId) = processed
          /\ Cardinality(processed) = 2
          /\ \A c \in Calls : \E q \in processed : q.requestId[1] = c
          /\ \A q \in processed : deepCompare(q.heliconeTemplate, r.heliconeTemplate)
    /\ Cardinality(prompt_v2) = 1
    /\ Cardinality(prompts_versions) = 1
    /\ Cardinality(prompt_input_record) = 2

\* C14: pipeline order and short-circuit. The stages invoked for a message are
\* a prefix of Authentication, RateLimit, BlobRead, RequestBodyParse,
\* ResponseBodyParse, PromptExtract, LogAccumulate, AnalyticsEmit, each at
\* most once; every stage before the last invoked one forwarded, so nothing
\* is invoked after a stage terminated the context.
PipelineOrder ==
    \A m \in Msgs :
       LET t == run[m].trace
           o == run[m].outcomes
           order == <<"Authentication", "RateLimit", "BlobRead",
                      "RequestBodyParse", "ResponseBodyParse", "PromptExtract",
                      "LogAccumulate", "AnalyticsEmit">>
       IN /\ Len(t) <= Len(order) /\ Len(o) = Len(t)
          /\ \A i \in 1..Len(t) : t[i] = order[i]
          /\ \A i \in 1..Len(t), j \in 1..Len(t) : t[i] = t[j] => i = j
          /\ \A i \in 1..(Len(o) - 1) : o[i] = "forward"
          /\ (Len(o) > 0 /\ o[Len(o)] = "terminate") => run[m].status = "terminated"
          /\ run[m].status = "terminated" => ~ ENABLED HandleStage(m)

\* one message went through the whole chain, another was stopped by the
\* third stage
ShortCircuited ==
    /\ \E m \in Msgs : run[m].status = "finished" /\ Len(run[m].trace) = Len(Stages)
    /\ \E m \in Msgs :
          /\ run[m].status = "terminated"
          /\ run[m].trace = <<"Authentication", "RateLimit", "BlobRead">>
    /\ mgr = "done"

\* C15: every PromptInputKey row of a version names an input that the
\* version's own helicone_template declares.
KeysDeclaredByVersion ==
    \A k \in prompt_input_keys :
       \A v \in prompts_versions :
          k.prompt_version = v.id => k.key \in Range(v.helicone_template.inputs)

\* C16: processing order inside one call. The records are locked and resolved
\* in the order of payload.prompts; of two records that carry a createdAt,
\* the one handled first has the smaller createdAt or, with equal createdAt,
\* arrived first (requestId[2] is the arrival position).
ProcessingOrder ==
    \A c \in Calls :
       LET s == payload[c].prompts
       IN \A j \in 1..Len(s) : \A i \in 1..(j - 1) :
             (j <= idx[c] /\ s[i].createdAt # NoDate /\ s[j].createdAt # NoDate)
             => \/ s[i].createdAt < s[j].createdAt
                \/ /\ s[i].createdAt = s[j].createdAt
                   /\ s[i].requestId[2] < s[j].requestId[2]

\* C17: a record without a template is a no-op success. The step of
\* processPrompt for such a record writes no row, pending or committed, does
\* not fail the call, and hands over to the next record of the batch (or to
\* the commit after the last one).
NoTemplateNoOp ==
    [][\A c \in Calls :
          (/\ pc[c] = "prompt"
           /\ Record(c).heliconeTemplate = NoTemplate
           /\ <<pc[c], idx[c], tx[c], result[c]>>' # <<pc[c], idx[c], tx[c], result[c]>>)
          => /\ tx'[c] = tx[c]
             /\ dbVars' = dbVars
             /\ result'[c] = result[c] /\ result[c] = "none"
             /\ payload'[c] = payload[c] /\ locks'[c] = locks[c]
             /\ idx'[c] = idx[c] + 1
             /\ pc'[c] = IF idx[c] < Len(payload[c].prompts) THEN "lock" ELSE "commit"]_vars

\* the first record of the call had no template and left nothing behind; the
\* call has gone on and minted a version for its second record
SkippedThenProcessed ==
    \E c \in Calls :
       /\ pc[c] = "inputs" /\ idx[c] = 2
       /\ payload[c].prompts[1].heliconeTemplate = NoTemplate
       /\ Cardinality(tx[c].prompt_v2) = 1
       /\ Cardinality(tx[c].prompts_versions) = 1
       /\ tx[c].prompt_input_record = {}
       /\ prompt_v2 = {}

\* the committed versions of the prompt row p
VersionsOfPrompt(p) == {v \in prompts_versions : v.prompt_v2 = p.id}

\* C18: the major_version values of the committed versions of a prompt are
\* exactly 0..k-1 for its k versions (no gap, no duplicate), every version
\* has minor_version 0, and every version belongs to a committed prompt.
MajorVersionsContiguous ==
    /\ \A p \in prompt_v2 :
          /\ {v.major_version : v \in VersionsOfPrompt(p)} =
             0..(Cardinality(VersionsOfPrompt(p)) - 1)
          /\ \A v \in VersionsOfPrompt(p) : v.minor_version = 0
    /\ \A v \in prompts_versions : \E p \in prompt_v2 : v.prompt_v2 = p.id

\* a prompt has two versions, and a call that had a version pending was
\* rolled back
TwoVersionsAndAnAbort ==
    /\ \E p \in prompt_v2 : Cardinality(VersionsOfPrompt(p)) = 2
    /\ \E c \in Calls : result[c] = "err" /\ "prompts_versions" \in undone[c]

\* C19: within a prompt, created_at is non-decreasing in major_version.
CreatedAtMonotonic ==
    \A p \in prompt_v2 :
       \A v \in VersionsOfPrompt(p), w \in VersionsOfPrompt(p) :
          v.major_version < w.major_version => v.created_at <= w.created_at

\* two versions of a prompt, the later one with a later created_at, after a
\* record older than both was processed as well
OlderRecordAfterTwoVersions ==
    \E p \in prompt_v2 :
       /\ \E v \in VersionsOfPrompt(p), w \in VersionsOfPrompt(p) :
             v.major_version < w.major_version /\ v.created_at < w.created_at
       /\ \E r \in prompt_input_record, w \in VersionsOfPrompt(p) :
             /\ r.prompt_version = w.id
             /\ r.created_at < w.created_at
             /\ \A v \in VersionsOfPrompt(p) : v.major_version <= w.major_version

\* C20: proxy endpoint gating. The provider is called only for a request
\* that carries temperature and model from a signed-in user who is not the
\* demo account; any other request gets exactly one response and no provider
\* call: the client error when a field is missing, the authorization error
\* otherwise. A request that reached the provider is answered with the
\* provider's answer or the server error; nobody is answered twice.
ProxyGating ==
    \A r \in Reqs :
       LET present == "temperature" \in DOMAIN body[r] /\ "model" \in DOMAIN body[r]
           allowed == user[r] # NoUser /\ user[r] # DEMO_EMAIL
       IN /\ created[r] > 0 => (present /\ allowed /\ created[r] = 1)
          /\ Len(sent[r]) <= 1
          /\ hpc[r] = "done" => Len(sent[r]) = 1
          /\ (hpc[r] = "done" /\ ~(present /\ allowed))
                => /\ created[r] = 0
                   /\ sent[r] = <<IF present THEN 401 ELSE 400>>
          /\ (hpc[r] = "done" /\ created[r] = 1) => sent[r] \in {<<200>>, <<500>>}

====
